---- MODULE Spec2Model ----
(***************************************************************************)
(* A model of scripts/create_orb_images.py: the annotation parser, the     *)
(* crop and scale geometry, the orb pass, the orb manifest listing and the *)
(* scene pass.                                                             *)
(*                                                                         *)
(* Text is a sequence of one-character strings, so that the substring test *)
(* 'orb' in name and int(text) are computed, not looked up.  A python dict *)
(* is a function whose domain is the set of its keys.                      *)
(***************************************************************************)
EXTENDS Integers, Sequences, FiniteSets, Bags, TLC

VARIABLES
    pc,          \* where the program is
    xml,         \* parser: the element tree handed to the parser
    parsed,      \* parser: what recursive_parse_xml_to_dict returned
    size,        \* scaling: image.size of the decoded scene image
    scaled,      \* scaling: the size handed to image.resize (or image.size)
    files,       \* annotation_files, in glob order
    codecRejectsEmpty, \* whether the codec raises on an empty crop box
    idx,         \* the loop index of the pass that is running (from 1)
    runs,        \* completed runs of main
    orbRoot,     \* whether extracted_orb_images/ exists
    orbDirs,     \* label directory -> the set of tile files in it
    orbCsv,      \* orb_data.csv: whether it exists, and the bag of its rows
    sceneFiles,  \* the files of orbs_in_screens/corrected_images/
    screenCsv,   \* screen_data.csv: the sequence of its rows
    cropLog,     \* history: every call of image.crop by save_orb
    detLog,      \* history: tight and expanded box of every detection
    lastScene,   \* history: what the last call of process_images did
    snaps        \* history: the outputs at the end of each completed run

parseVars == <<xml, parsed>>
scaleVars == <<size, scaled>>
inputVars == <<files, codecRejectsEmpty>>
orbVars   == <<orbRoot, orbDirs, orbCsv, cropLog, detLog>>
sceneVars == <<sceneFiles, screenCsv, lastScene>>
pipeVars  == <<inputVars, idx, runs, orbVars, sceneVars, snaps>>

vars == <<pc, parseVars, scaleVars, pipeVars>>

\* ------------------------------------------------------------------ bounds

MaxKids == 2
MaxInner == 2
MaxFiles == 2
MaxRuns == 2

\* ------------------------------------------------------------------- text

Max(a, b) == IF a >= b THEN a ELSE b
Min(a, b) == IF a <= b THEN a ELSE b

EmptyDict == [k \in {} |-> k]

DigitVal ==
    "0" :> 0 @@ "1" :> 1 @@ "2" :> 2 @@ "3" :> 3 @@ "4" :> 4 @@
    "5" :> 5 @@ "6" :> 6 @@ "7" :> 7 @@ "8" :> 8 @@ "9" :> 9

DigitChar == <<"0", "1", "2", "3", "4", "5", "6", "7", "8", "9">>

RECURSIVE DigitsValue(_)
DigitsValue(t) ==
    IF Len(t) = 0 THEN 0
    ELSE 10 * DigitsValue(SubSeq(t, 1, Len(t) - 1)) + DigitVal[t[Len(t)]]

\* int(text) and float(text) of a decimal integer literal
IntOf(t) ==
    IF Len(t) > 0 /\ t[1] = "-" THEN 0 - DigitsValue(Tail(t)) ELSE DigitsValue(t)

\* 'sub' in s
Contains(sub, s) ==
    \E i \in 0..(Len(s) - Len(sub)) : SubSeq(s, i + 1, i + Len(sub)) = sub

\* ------------------------------------------------------------- the parser

El(tag, text, kids) == [tag |-> tag, text |-> text, kids |-> kids]

\* result = {}
NewResult_withObjects == "object" :> <<>>
NewResult == EmptyDict

\* the loop body's update of result for one child
AddChild_keepLast(result, tag, value) ==
    IF tag # "object" THEN (tag :> value) @@ result
    ELSE (tag :> <<value>>) @@ result
AddChild(result, tag, value) ==
    IF tag # "object" THEN (tag :> value) @@ result
    ELSE IF tag \notin DOMAIN result
         THEN (tag :> <<value>>) @@ result
         ELSE (tag :> Append(result[tag], value)) @@ result

\* for child in xml: the children lo..hi in document order, after result.
\* The range is halved so that the evaluation stays shallow; the children
\* are still folded left to right, one AddChild each.  (TLC evaluates an
\* argument only when it is used: the test left = left makes it finish the
\* left half before it starts the right one.)
RECURSIVE recursive_parse_xml_to_dict(_)
RECURSIVE ParseChildren(_, _, _, _)
ParseChildren(kids, lo, hi, result) ==
    IF lo > hi THEN result
    ELSE IF lo = hi
    THEN LET child == kids[lo]
             child_result == recursive_parse_xml_to_dict(child)
         IN AddChild(result, child.tag, child_result[child.tag])
    ELSE LET mid == (lo + hi) \div 2
             left == ParseChildren(kids, lo, mid, result)
         IN IF left = left THEN ParseChildren(kids, mid + 1, hi, left) ELSE left

recursive_parse_xml_to_dict(el) ==
    IF Len(el.kids) = 0 THEN el.tag :> el.text
    ELSE el.tag :> ParseChildren(el.kids, 1, Len(el.kids), NewResult)


\* --------------------------------------------------- binary64 arithmetic
\* A positive double is [bits, frac]: the integer whose binary digits are
\* bits (most significant first) divided by 2^frac.  Every operation rounds
\* to DBL_MANT_DIG significant bits, to nearest, ties to even.

DBL_MANT_DIG == 53

Pow2 == <<1, 2, 4, 8, 16, 32, 64, 128>>

Zeros(n) == [i \in 1..n |-> 0]

\* b without its leading zeros
StripZeros(b) ==
    IF \A i \in 1..Len(b) : b[i] = 0 THEN <<>>
    ELSE LET k == CHOOSE i \in 1..Len(b) :
                      b[i] = 1 /\ \A j \in 1..(i - 1) : b[j] = 0
         IN SubSeq(b, k, Len(b))

\* b + 1
Inc(b) ==
    IF \A i \in 1..Len(b) : b[i] = 1 THEN <<1>> \o Zeros(Len(b))
    ELSE LET k == CHOOSE i \in 1..Len(b) :
                      b[i] = 0 /\ \A j \in (i + 1)..Len(b) : b[j] = 1
         IN SubSeq(b, 1, k - 1) \o <<1>> \o Zeros(Len(b) - k)

RECURSIVE BitsValue(_)
BitsValue(b) ==
    IF Len(b) = 0 THEN 0
    ELSE 2 * BitsValue(SubSeq(b, 1, Len(b) - 1)) + b[Len(b)]

RECURSIVE BitsOf(_)
BitsOf(n) == IF n = 0 THEN <<>> ELSE BitsOf(n \div 2) \o <<n % 2>>

\* bits <-> base-256 digits, most significant first
LimbsToBits(l) ==
    [i \in 1..(8 * Len(l)) |->
        (l[((i - 1) \div 8) + 1] \div Pow2[8 - ((i - 1) % 8)]) % 2]

BitsToLimbs(b) ==
    LET n == (Len(b) + 7) \div 8
        p == Zeros(8 * n - Len(b)) \o b
    IN [j \in 1..n |->
          128 * p[8 * j - 7] + 64 * p[8 * j - 6] + 32 * p[8 * j - 5]
          + 16 * p[8 * j - 4] + 8 * p[8 * j - 3] + 4 * p[8 * j - 2]
          + 2 * p[8 * j - 1] + p[8 * j]]

\* drop the `drop` low bits of b, rounding to nearest, ties to even
RoundBits(b, drop) ==
    LET keep == SubSeq(b, 1, Len(b) - drop)
        rest == SubSeq(b, Len(b) - drop + 1, Len(b))
        low  == \E i \in 2..Len(rest) : rest[i] = 1
        up   == rest[1] = 1 /\ (low \/ (Len(keep) > 0 /\ keep[Len(keep)] = 1))
    IN IF up THEN Inc(keep) ELSE keep

RECURSIVE RoundSig(_)
RoundSig(v) ==
    LET b == StripZeros(v.bits)
    IN IF Len(b) <= DBL_MANT_DIG THEN [bits |-> b, frac |-> v.frac]
       ELSE RoundSig([bits |-> RoundBits(b, Len(b) - DBL_MANT_DIG),
                      frac |-> v.frac - (Len(b) - DBL_MANT_DIG)])

\* long division of r by m, eight binary digits a step: DivDigits of them
DivDigits == (DBL_MANT_DIG + 27) \div 8

RECURSIVE DivStep(_, _, _)
DivStep(r, m, acc) ==
    IF Len(acc) = DivDigits THEN [limbs |-> acc, rem |-> r]
    ELSE DivStep((256 * r) % m, m, Append(acc, (256 * r) \div m))

\* float(a) / float(m) for integers 0 < a < m < 2^20: the quotient's first
\* DBL_MANT_DIG + 1 significant bits and one more that says whether anything
\* nonzero follows them, rounded
Fdiv(a, m) ==
    LET d    == DivStep(a, m, <<>>)
        all  == LimbsToBits(d.limbs)
        sig  == StripZeros(all)
        lead == Len(all) - Len(sig)
        head == SubSeq(sig, 1, DBL_MANT_DIG + 1)
        more == d.rem # 0 \/ \E i \in (DBL_MANT_DIG + 2)..Len(sig) : sig[i] = 1
    IN RoundSig([bits |-> head \o <<IF more THEN 1 ELSE 0>>,
                 frac |-> lead + DBL_MANT_DIG + 2])

\* 1.0 - v for 0 < v < 1
Fsub1(v) ==
    LET pad == Zeros(v.frac - Len(v.bits)) \o v.bits
        inv == [i \in 1..Len(pad) |-> 1 - pad[i]]
    IN RoundSig([bits |-> Inc(inv), frac |-> v.frac])

\* the base-256 digits of l times x, lowest digit first into acc
RECURSIVE MulStep(_, _, _, _)
MulStep(l, x, carry, acc) ==
    IF Len(acc) = Len(l) THEN BitsToLimbs(BitsOf(carry)) \o acc
    ELSE LET t == l[Len(l) - Len(acc)] * x + carry
         IN MulStep(l, x, t \div 256, <<t % 256>> \o acc)

\* float(x) * v for an integer 1 <= x < 2^20
Fmul(x, v) ==
    RoundSig([bits |-> LimbsToBits(MulStep(BitsToLimbs(v.bits), x, 0, <<>>)),
              frac |-> v.frac])

\* int(v) for v >= 0
Trunc(v) ==
    IF Len(v.bits) <= v.frac THEN 0
    ELSE BitsValue(SubSeq(v.bits, 1, Len(v.bits) - v.frac))

\* ------------------------------------------------------------ scene scale

MAX_IMG_DIM == 1024

\* the size the scene image is written with
ScaledSize(w, h) ==
    LET max_dim == Max(w, h)
    IN IF max_dim > MAX_IMG_DIM
       THEN LET scale_factor == Fsub1(Fdiv(max_dim - MAX_IMG_DIM, max_dim))
            IN IF w > h
               THEN <<MAX_IMG_DIM, Trunc(Fmul(h, scale_factor))>>
               ELSE <<Trunc(Fmul(w, scale_factor)), MAX_IMG_DIM>>
       ELSE <<w, h>>


\* ------------------------------------------------------------- the input
\* The image directory and the annotation documents the runs read.  A
\* document is described by its filename, its size element, the number n of
\* its object elements and the pattern pat they repeat; XmlOf is its tree.

ORB == <<"o", "r", "b">>
NAME_R == <<"o", "r", "b", "_", "r">>
NAME_B == <<"o", "r", "b", "_", "b">>
NAME_J == <<"j", "a", "m">>

IMG_S == <<"s", ".", "p", "n", "g">>
IMG_B == <<"b", ".", "j", "p", "g">>
IMG_G == <<"a", ".", "g", "i", "f">>

ImageDir ==
    IMG_S :> [name |-> IMG_S, size |-> <<10, 10>>, format |-> "PNG"] @@
    IMG_B :> [name |-> IMG_B, size |-> <<1200, 1200>>, format |-> "JPEG"] @@
    IMG_G :> [name |-> IMG_G, size |-> <<10, 10>>, format |-> "GIF"]

Obj(name, xmin, ymin, xmax, ymax) ==
    [name |-> name, xmin |-> xmin, ymin |-> ymin, xmax |-> xmax, ymax |-> ymax]

OrbPat == <<Obj(NAME_R, 2, 2, 6, 6), Obj(NAME_B, 0, 5, 4, 10)>>
MixPat == <<Obj(NAME_R, 2, 2, 6, 6), Obj(NAME_J, 1, 1, 3, 3)>>
OobPat == <<Obj(NAME_R, 2, 2, 6, 6), Obj(NAME_B, 4, 4, 12, 8)>>
DegPat == <<Obj(NAME_R, 2, 2, 6, 6), Obj(NAME_B, 5, 5, 5, 9), Obj(NAME_R, 7, 2, 3, 6)>>

Doc(img, width, height, n, pat) ==
    [img |-> img, width |-> width, height |-> height, n |-> n, pat |-> pat]

Docs ==
    {Doc(IMG_S, 10, 10, n, OrbPat) : n \in {0, 19, 20, 21, 30, 42}}
    \cup {Doc(IMG_S, 10, 10, n, MixPat) : n \in {20, 40}}
    \cup {Doc(IMG_S, 10, 10, 20, OobPat), Doc(IMG_S, 10, 10, 20, DegPat)}
    \cup {Doc(IMG_B, 1200, 1200, 20, OrbPat), Doc(IMG_G, 10, 10, 20, OrbPat),
          Doc(IMG_S, 0, 10, 20, OrbPat)}

\* the object elements of a document, in document order
Objects(d) == [i \in 1..d.n |-> d.pat[((i - 1) % Len(d.pat)) + 1]]

RECURSIVE Dec(_)
Dec(n) ==
    IF n < 10 THEN <<DigitChar[n + 1]>>
    ELSE Dec(n \div 10) \o <<DigitChar[(n % 10) + 1]>>

Leaf(tag, text) == El(tag, text, <<>>)

ObjEl(o) ==
    El("object", <<>>,
       <<Leaf("name", o.name),
         El("bndbox", <<>>,
            <<Leaf("xmin", Dec(o.xmin)), Leaf("ymin", Dec(o.ymin)),
              Leaf("xmax", Dec(o.xmax)), Leaf("ymax", Dec(o.ymax))>>)>>)

XmlOf(d) ==
    El("annotation", <<>>,
       <<Leaf("filename", d.img),
         El("size", <<>>,
            <<Leaf("width", Dec(d.width)), Leaf("height", Dec(d.height))>>)>>
       \o [i \in 1..d.n |-> ObjEl(Objects(d)[i])])

load_annotations(annotation_file) ==
    recursive_parse_xml_to_dict(XmlOf(annotation_file))["annotation"]

\* ------------------------------------------------------------- constants

ORB_SIZE == 64
\* ORB_EXPANSION_PCT = .1 as a fraction.  Crop boxes are kept in units of
\* 1/ORB_EXPANSION_DEN pixel, in which the expanded box is exact.
ORB_EXPANSION_NUM == 1
ORB_EXPANSION_DEN == 10

\* [4*5, 5*6, 6*7]
ExpectedOrbCounts_without30 == {4 * 5, 6 * 7}
ExpectedOrbCounts == {4 * 5, 5 * 6, 6 * 7}

BUCKET_PATH == "rpad-discord-vcm"
ORB_BUCKET_PATH == <<BUCKET_PATH, "orbs">>
SCREEN_BUCKET_PATH == <<BUCKET_PATH, "orbs">>
ORB_OUTPUT_PATH == "extracted_orb_images"
SCREEN_OUTPUT_PATH == "orbs_in_screens"

\* ------------------------------------------------------------- the codec
\* The image library is outside the program.  What a crop or a resize holds
\* is named by the image it was taken from and the box or size asked for;
\* the md5 digest of the pixels is named by what it digests.

Box(xmin, ymin, xmax, ymax) ==
    [xmin |-> xmin, ymin |-> ymin, xmax |-> xmax, ymax |-> ymax]

Empty(box) == box.xmax <= box.xmin \/ box.ymax <= box.ymin

Crop(image, box) == [src |-> image.name, box |-> box]
Resize(content, wh) == [of |-> content, size |-> wh]
Md5(content) == [md5 |-> content]
PngName(key) == [key |-> key, ext |-> ".png"]

\* ------------------------------------------------------------ load_image

extract_orb_annotations(data) ==
    SelectSeq(data["object"], LAMBDA x : Contains(ORB, x["name"]))

load_image(data) ==
    IF "object" \notin DOMAIN data
    THEN [raised |-> TRUE, image |-> ImageDir[data["filename"]]]
    ELSE LET image == ImageDir[data["filename"]]
         IN [raised |-> image.format \notin {"JPEG", "PNG"}, image |-> image]

\* ---------------------------------------------------------- process_orbs

\* (xmin, ymin, xmax, ymax) of the first save_orb call of a detection
TightBox(obj) ==
    LET bb == obj["bndbox"]
    IN Box(ORB_EXPANSION_DEN * IntOf(bb["xmin"]),
           ORB_EXPANSION_DEN * IntOf(bb["ymin"]),
           ORB_EXPANSION_DEN * IntOf(bb["xmax"]),
           ORB_EXPANSION_DEN * IntOf(bb["ymax"]))

\* (xmin, ymin, xmax, ymax) of the second one
ExpandedBox(t, image_width, image_height) ==
    LET x_offset == (ORB_EXPANSION_NUM * (t.xmax - t.xmin)) \div ORB_EXPANSION_DEN
        y_offset == (ORB_EXPANSION_NUM * (t.ymax - t.ymin)) \div ORB_EXPANSION_DEN
    IN Box(Max(0, t.xmin - x_offset),
           Max(0, t.ymin - y_offset),
           Min(ORB_EXPANSION_DEN * image_width, t.xmax + x_offset),
           Min(ORB_EXPANSION_DEN * image_height, t.ymax + y_offset))

\* the file save_orb writes: its directory and its name
OrbTile(image, class_text, box) ==
    [label |-> class_text,
     name  |-> PngName(Md5(Resize(Crop(image, box), <<ORB_SIZE, ORB_SIZE>>)))]

\* The save_orb calls of one document in program order: two a detection.
SaveOrbCalls(data, image) ==
    LET orb_annotations == extract_orb_annotations(data)
    IN [j \in 1..(2 * Len(orb_annotations)) |->
          LET obj == orb_annotations[(j + 1) \div 2]
              t   == TightBox(obj)
          IN [class_text |-> obj["name"],
              det |-> (j + 1) \div 2,
              box |-> IF j % 2 = 1 THEN t
                      ELSE ExpandedBox(t, image.size[1], image.size[2])]]

MinOf(S) == CHOOSE x \in S : \A y \in S : x <= y

\* What process_orbs does to one document: the crops it asks for, the tiles
\* it writes, and whether it raised.  A codec that rejects an empty box ends
\* the loop at the first such crop.
process_orbs(annotation_file, rejects) ==
    LET data == load_annotations(annotation_file)
        li   == load_image(data)
    IN IF li.raised
       THEN [raised |-> TRUE, crops |-> {}, tiles |-> {}, dets |-> {}]
       ELSE LET calls == SaveOrbCalls(data, li.image)
                bad   == {j \in 1..Len(calls) : Empty(calls[j].box)}
                stop  == IF rejects /\ bad # {} THEN MinOf(bad) ELSE Len(calls) + 1
                made  == 1..Min(stop, Len(calls))
            IN [raised |-> stop <= Len(calls),
                crops  |-> {[box |-> calls[j].box, width |-> li.image.size[1],
                             height |-> li.image.size[2]] : j \in made},
                tiles  |-> {OrbTile(li.image, calls[j].class_text, calls[j].box) :
                               j \in 1..(stop - 1)},
                dets   |-> {[tight |-> calls[j - 1].box, expanded |-> calls[j].box,
                             width |-> li.image.size[1],
                             height |-> li.image.size[2]] :
                               j \in {k \in made : k % 2 = 0}}]

\* os.makedirs and orb_img.save for a set of tiles
WriteTiles(dirs, tiles) ==
    [label \in DOMAIN dirs \cup {t.label : t \in tiles} |->
        (IF label \in DOMAIN dirs THEN dirs[label] ELSE {})
        \cup {t.name : t \in {u \in tiles : u.label = label}}]

\* the rows of orb_data.csv: os.listdir of the output directory, the entries
\* that are directories, and os.listdir of each.  The rows are a bag: the
\* order of os.listdir is the file system's.
OrbManifestRows_labelOnce(dirs, csvExists) ==
    LET labels == {l \in DOMAIN dirs : dirs[l] # {}}
        Row(l) == <<<<"gs:", ORB_BUCKET_PATH, ORB_OUTPUT_PATH, l,
                      CHOOSE f \in dirs[l] : TRUE>>, l>>
    IN [r \in {Row(l) : l \in labels} |-> 1]
OrbManifestRows(dirs, csvExists) ==
    LET entries == {[name |-> l, isdir |-> TRUE] : l \in DOMAIN dirs}
                   \cup (IF csvExists
                         THEN {[name |-> <<"orb_data.csv">>, isdir |-> FALSE]}
                         ELSE {})
        found   == UNION {{<<e.name, f>> : f \in dirs[e.name]} :
                             e \in {x \in entries : x.isdir}}
        Row(p)  == <<<<"gs:", ORB_BUCKET_PATH, ORB_OUTPUT_PATH, p[1], p[2]>>, p[1]>>
    IN [r \in {Row(p) : p \in found} |-> Cardinality({p \in found : Row(p) = r})]

\* -------------------------------------------------------- process_images

\* what image.tobytes() holds when the scene image is saved
ScenePixels(image) ==
    IF Max(image.size[1], image.size[2]) > MAX_IMG_DIM
    THEN Resize([src |-> image.name], ScaledSize(image.size[1], image.size[2]))
    ELSE [src |-> image.name]

\* results: one tuple an orb annotation; a coordinate is <<pixels, extent>>
SceneResults_reversed(orb_annotations, output_img_path, width, height) ==
    [j \in 1..Len(orb_annotations) |->
        LET bb == orb_annotations[Len(orb_annotations) + 1 - j]["bndbox"]
        IN <<"UNASSIGNED", output_img_path, ORB,
             <<IntOf(bb["xmin"]), width>>, <<IntOf(bb["ymin"]), height>>,
             <<IntOf(bb["xmax"]), width>>, <<IntOf(bb["ymax"]), height>>>>]
SceneResults(orb_annotations, output_img_path, width, height) ==
    [j \in 1..Len(orb_annotations) |->
        LET bb == orb_annotations[j]["bndbox"]
        IN <<"UNASSIGNED", output_img_path, ORB,
             <<IntOf(bb["xmin"]), width>>, <<IntOf(bb["ymin"]), height>>,
             <<IntOf(bb["xmax"]), width>>, <<IntOf(bb["ymax"]), height>>>>]

\* What process_images does to one document: whether it raised, skipped or
\* returned, the scene image it wrote, and the results it returned.
process_images(annotation_file) ==
    LET data == load_annotations(annotation_file)
        li   == load_image(data)
    IN IF li.raised
       THEN [status |-> "raised", wrote |-> {}, results |-> <<>>]
       ELSE LET orb_annotations == extract_orb_annotations(data)
                orb_count == Len(orb_annotations)
                file == PngName(Md5(ScenePixels(li.image)))
                output_img_path == <<SCREEN_OUTPUT_PATH, "corrected_images", file>>
                width  == IntOf(data["size"]["width"])
                height == IntOf(data["size"]["height"])
            IN IF orb_count \notin ExpectedOrbCounts
               THEN [status |-> "skipped", wrote |-> {}, results |-> <<>>]
               ELSE IF width = 0 \/ height = 0
               THEN [status |-> "raised", wrote |-> {file}, results |-> <<>>]
               ELSE [status |-> "returned", wrote |-> {file},
                     results |-> SceneResults(orb_annotations, output_img_path,
                                              width, height)]

\* round(num, 4), in units of 1/10000; to nearest, ties to even
UNIT == 10000
pr(num) ==
    LET n == UNIT * num[1]
        q == n \div num[2]
        r == 2 * (n % num[2])
    IN IF r > num[2] \/ (r = num[2] /\ q % 2 = 1) THEN q + 1 ELSE q

\* the row csv_writer.writerow gets for one item of the results
ScreenRow(item) ==
    LET item_path == IF Head(item[2]) = SCREEN_OUTPUT_PATH THEN Tail(item[2])
                     ELSE item[2]
        gcs_file_path == <<"gs:", SCREEN_BUCKET_PATH, SCREEN_OUTPUT_PATH>> \o item_path
    IN <<item[1], gcs_file_path, item[3], pr(item[4]), pr(item[5]), "", "",
         pr(item[6]), pr(item[7]), "", "">>

\* open(screen_output_csv, 'w')
OpenForWrite_append(rows) == rows
OpenForWrite(rows) == <<>>

\* ------------------------------------------------------------ the program

\* what the outputs are: the image files and the rows of both manifests
Outputs ==
    [orbFiles |-> orbDirs, sceneFiles |-> sceneFiles,
     orbRows |-> orbCsv.rows, screenRows |-> screenCsv]

StaleTile == OrbTile([name |-> <<"o", "l", "d">>], NAME_R, Box(0, 0, 100, 100))
StaleScene == PngName(Md5([src |-> <<"o", "l", "d">>]))
StaleRow ==
    ScreenRow(<<"UNASSIGNED", <<SCREEN_OUTPUT_PATH, "corrected_images", StaleScene>>,
                ORB, <<1, 10>>, <<1, 10>>, <<5, 10>>, <<5, 10>>>>)

NoScene == [idx |-> 0, status |-> "none", from |-> 0, wrote |-> {}]

Idle ==
    /\ xml = El("annotation", <<"a">>, <<>>)
    /\ parsed = EmptyDict
    /\ size = <<1, 1>>
    /\ scaled = <<1, 1>>

PipeIdle ==
    /\ files = <<>>
    /\ codecRejectsEmpty = FALSE
    /\ idx = 0
    /\ runs = 0
    /\ orbRoot = FALSE
    /\ orbDirs = EmptyDict
    /\ orbCsv = [exists |-> FALSE, rows |-> EmptyBag]
    /\ sceneFiles = {}
    /\ screenCsv = <<>>
    /\ cropLog = {}
    /\ detLog = {}
    /\ lastScene = NoScene
    /\ snaps = <<>>

\* main starts: the output root is fresh, or holds what an earlier run on
\* other inputs left
Init ==
    /\ Idle
    /\ pc = "orb"
    /\ files \in UNION {[1..k -> Docs] : k \in 0..MaxFiles}
    /\ codecRejectsEmpty \in BOOLEAN
    /\ idx = 1
    /\ runs = 0
    /\ \E stale \in BOOLEAN :
          /\ orbRoot = stale
          /\ orbDirs = IF stale THEN WriteTiles(EmptyDict, {StaleTile}) ELSE EmptyDict
          /\ orbCsv = IF stale
                      THEN [exists |-> TRUE,
                            rows |-> OrbManifestRows(WriteTiles(EmptyDict, {StaleTile}), TRUE)]
                      ELSE [exists |-> FALSE, rows |-> EmptyBag]
          /\ sceneFiles = IF stale THEN {StaleScene} ELSE {}
          /\ screenCsv = IF stale THEN <<StaleRow>> ELSE <<>>
    /\ cropLog = {}
    /\ detLog = {}
    /\ lastScene = NoScene
    /\ snaps = <<>>

\* what the two passes do to each document of the input, computed once
OrbPass == [d \in Docs, rejects \in BOOLEAN |-> process_orbs(d, rejects)]
ScenePass == [d \in Docs |-> process_images(d)]

\* one iteration of do_orb_processing's loop: process_orbs of a document
OrbStep ==
    /\ pc = "orb"
    /\ idx <= Len(files)
    /\ LET r == OrbPass[files[idx], codecRejectsEmpty]
       IN /\ orbDirs' = WriteTiles(orbDirs, r.tiles)
          /\ orbRoot' = (orbRoot \/ r.tiles # {})
          /\ cropLog' = cropLog \cup r.crops
          /\ detLog' = detLog \cup r.dets
          /\ IF r.raised
             THEN pc' = "failed" /\ idx' = idx
             ELSE pc' = "orb" /\ idx' = idx + 1
    /\ UNCHANGED <<parseVars, scaleVars, inputVars, runs, orbCsv, sceneVars, snaps>>

\* the rest of do_orb_processing: orb_data.csv is opened for writing, which
\* raises if the output directory was never made, and the listing is written
OrbManifest ==
    /\ pc = "orb"
    /\ idx > Len(files)
    /\ IF orbRoot
       THEN /\ orbCsv' = [exists |-> TRUE, rows |-> OrbManifestRows(orbDirs, TRUE)]
            /\ pc' = "screen_open"
       ELSE /\ orbCsv' = orbCsv
            /\ pc' = "failed"
    /\ UNCHANGED <<parseVars, scaleVars, inputVars, idx, runs, orbRoot, orbDirs,
                   cropLog, detLog, sceneVars, snaps>>

\* do_screen_processing up to its loop: screen_data.csv is opened
ScreenOpen ==
    /\ pc = "screen_open"
    /\ screenCsv' = OpenForWrite(screenCsv)
    /\ pc' = "screen"
    /\ idx' = 1
    /\ UNCHANGED <<parseVars, scaleVars, inputVars, runs, orbVars, sceneFiles,
                   lastScene, snaps>>

\* one iteration of do_screen_processing's loop: process_images of a
\* document, and a row written for each of its results
ScreenStep ==
    /\ pc = "screen"
    /\ idx <= Len(files)
    /\ LET r == ScenePass[files[idx]]
       IN /\ sceneFiles' = sceneFiles \cup r.wrote
          /\ screenCsv' = screenCsv \o [j \in 1..Len(r.results) |-> ScreenRow(r.results[j])]
          /\ lastScene' = [idx |-> idx, status |-> r.status,
                           from |-> Len(screenCsv), wrote |-> r.wrote]
          /\ IF r.status = "raised"
             THEN pc' = "failed" /\ idx' = idx
             ELSE pc' = "screen" /\ idx' = idx + 1
    /\ UNCHANGED <<parseVars, scaleVars, inputVars, runs, orbVars, snaps>>

\* the loop is over: the file is closed and main returns
ScreenDone ==
    /\ pc = "screen"
    /\ idx > Len(files)
    /\ pc' = "done"
    /\ runs' = runs + 1
    /\ snaps' = Append(snaps, Outputs)
    /\ UNCHANGED <<parseVars, scaleVars, inputVars, idx, orbVars, sceneVars>>

\* the command is run again on the same inputs and the same output root
Rerun ==
    /\ pc = "done"
    /\ runs < MaxRuns
    /\ pc' = "orb"
    /\ idx' = 1
    /\ lastScene' = NoScene
    /\ UNCHANGED <<parseVars, scaleVars, inputVars, runs, orbVars, sceneFiles,
                   screenCsv, snaps>>

Next ==
    \/ OrbStep
    \/ OrbManifest
    \/ ScreenOpen
    \/ ScreenStep
    \/ ScreenDone
    \/ Rerun

Spec == Init /\ [][Next]_vars

\* ------------------------------------------------------- parser, alone

T1 == <<"a">>
T2 == <<"b">>

Leaves == {El("name", T1, <<>>), El("name", T2, <<>>), El("object", T1, <<>>)}

SeqsUpTo(S, n) == UNION {[1..k -> S] : k \in 0..n}

Inner == {El("object", <<>>, ks) : ks \in SeqsUpTo(Leaves, MaxInner) \ {<<>>}}

Roots == {El("annotation", T1, ks) : ks \in SeqsUpTo(Leaves \cup Inner, MaxKids)}

InitParse ==
    /\ pc = "parse"
    /\ xml \in Roots
    /\ parsed = EmptyDict
    /\ size = <<1, 1>>
    /\ scaled = <<1, 1>>
    /\ PipeIdle

Parse ==
    /\ pc = "parse"
    /\ parsed' = recursive_parse_xml_to_dict(xml)
    /\ pc' = "parsed"
    /\ UNCHANGED <<xml, scaleVars, pipeVars>>

NextParse == Parse

SpecParse == InitParse /\ [][NextParse]_vars

\* -------------------------------------------------------- scaling, alone

Dims == {1, 75, 512, 600, 800, 1000, 1024, 1025, 1200, 2000, 2048}

InitScale ==
    /\ pc = "scale"
    /\ size \in Dims \X Dims
    /\ scaled = <<1, 1>>
    /\ xml = El("annotation", <<"a">>, <<>>)
    /\ parsed = EmptyDict
    /\ PipeIdle

Scale ==
    /\ pc = "scale"
    /\ scaled' = ScaledSize(size[1], size[2])
    /\ pc' = "scaled"
    /\ UNCHANGED <<parseVars, size, pipeVars>>

NextScale == Scale

SpecScale == InitScale /\ [][NextScale]_vars

\* ============================================================== properties

\* ---- what the input says, read off the document's description and not
\* ---- through the parser

HasOrbName(o) == Contains(ORB, o.name)
OrbObjects(d) == SelectSeq(Objects(d), HasOrbName)
LastScenePassRows == SubSeq(screenCsv, lastScene.from + 1, Len(screenCsv))

\* ---- the parser (SpecParse)

NoObjectElements(el) == \A i \in 1..Len(el.kids) : el.kids[i].tag # "object"

\* what the claim says a node contributes under its tag: a leaf its text, an
\* inner node a dict with the object children collected in document order
\* and, for any other tag, the last child of that tag
RECURSIVE Contribution(_)
Contribution(el) ==
    IF Len(el.kids) = 0 THEN el.text
    ELSE LET IsObject(k) == k.tag = "object"
             objs == SelectSeq(el.kids, IsObject)
             Last(t) == CHOOSE i \in 1..Len(el.kids) :
                           /\ el.kids[i].tag = t
                           /\ \A j \in (i + 1)..Len(el.kids) : el.kids[j].tag # t
         IN [t \in {el.kids[i].tag : i \in 1..Len(el.kids)} |->
               IF t = "object"
               THEN [j \in 1..Len(objs) |-> Contribution(objs[j])]
               ELSE Contribution(el.kids[Last(t)])]

\* C7, as stated: parsing a document with no object element yields a record
\* whose object sequence is present and empty (taken here for the documents
\* that have other child elements, which parse to a record).
C7_EmptyObjectSequence ==
    (pc = "parsed" /\ NoObjectElements(xml) /\ Len(xml.kids) > 0) =>
        /\ "object" \in DOMAIN parsed["annotation"]
        /\ Len(parsed["annotation"]["object"]) = 0

\* C7, amended: parsing a document that has child elements but no object
\* element succeeds and yields a record that has no object sequence at all:
\* the key 'object' is absent.
C7_NoObjectKey ==
    (pc = "parsed" /\ NoObjectElements(xml) /\ Len(xml.kids) > 0) =>
        "object" \notin DOMAIN parsed["annotation"]

C7_Witness ==
    /\ pc = "parsed"
    /\ Len(xml.kids) = 2
    /\ NoObjectElements(xml)
    /\ DOMAIN parsed["annotation"] = {"name"}

\* C10: at every node the object children are collected into one sequence in
\* document order, one entry each, and of the children of any other tag
\* only the last remains.
C10_ObjectsCollectedOthersOverwritten ==
    pc = "parsed" => parsed = (xml.tag :> Contribution(xml))

C10_Witness ==
    /\ pc = "parsed"
    /\ Len(xml.kids) = 2
    /\ xml.kids[1] = El("object", <<>>, <<El("name", T1, <<>>), El("name", T2, <<>>)>>)
    /\ xml.kids[2] = El("object", T1, <<>>)
    /\ Len(parsed["annotation"]["object"]) = 2
    /\ parsed["annotation"]["object"][1]["name"] = T2
    /\ parsed["annotation"]["object"][2] = T1

\* ---- the scene scale (SpecScale)

\* the size the claim gives: unchanged up to 1024, else the longer axis 1024
\* and the shorter one the integer part of shorter * 1024 / longer
ClaimedSize(w, h) ==
    IF Max(w, h) <= 1024 THEN <<w, h>>
    ELSE IF w >= h THEN <<1024, (h * 1024) \div w>>
    ELSE <<(w * 1024) \div h, 1024>>

\* C3, as stated: the scene image is written with the size ClaimedSize gives.
C3_ScaledSizeAsClaimed ==
    pc = "scaled" => scaled = ClaimedSize(size[1], size[2])

\* ---- the orb pass (Spec)

Within(box, width, height) ==
    /\ 0 <= box.xmin /\ box.xmin <= ORB_EXPANSION_DEN * width
    /\ 0 <= box.xmax /\ box.xmax <= ORB_EXPANSION_DEN * width
    /\ 0 <= box.ymin /\ box.ymin <= ORB_EXPANSION_DEN * height
    /\ 0 <= box.ymax /\ box.ymax <= ORB_EXPANSION_DEN * height

Encloses(outer, inner) ==
    /\ outer.xmin <= inner.xmin /\ inner.xmax <= outer.xmax
    /\ outer.ymin <= inner.ymin /\ inner.ymax <= outer.ymax

\* C2, as stated: for every detection the orb pass handles, the expanded box
\* contains the tight box and both lie within the image.
C2_ExpandedContainsTightInImage ==
    \A d \in detLog :
        /\ Encloses(d.expanded, d.tight)
        /\ Within(d.tight, d.width, d.height)
        /\ Within(d.expanded, d.width, d.height)

\* C9, as stated: the orb pass never asks the codec for a crop whose box has
\* zero or negative extent.
C9_NoEmptyCrop == \A c \in cropLog : ~Empty(c.box)

\* C5: when the orb pass has written orb_data.csv, it holds exactly one row
\* for every tile file in a label directory, tiles of earlier runs included,
\* no other row, and each row's label is its directory's name.
C5_OrbManifestMatchesDisk ==
    pc = "screen_open" =>
        /\ orbCsv.exists
        /\ orbCsv.rows =
             [r \in {<<<<"gs:", ORB_BUCKET_PATH, ORB_OUTPUT_PATH, t[1], t[2]>>, t[1]>> :
                        t \in UNION {{<<l, f>> : f \in orbDirs[l]} : l \in DOMAIN orbDirs}}
                |-> 1]

C5_Witness ==
    /\ pc = "screen_open"
    /\ NAME_B \in DOMAIN orbDirs
    /\ NAME_R \in DOMAIN orbDirs
    /\ StaleTile.name \in orbDirs[NAME_R]
    /\ Cardinality(orbDirs[NAME_R]) > 1
    /\ Cardinality(DOMAIN orbCsv.rows) > 3

\* C6: a second run on the same inputs and the same output root leaves the
\* same image files and the same rows in both manifests as the first.
C6_SecondRunSameOutputs ==
    \A i \in 2..Len(snaps) : snaps[i] = snaps[i - 1]

C6_Witness ==
    /\ Len(snaps) >= 2
    /\ Len(files) = 2
    /\ Len(snaps[2].screenRows) > 0
    /\ DOMAIN snaps[2].orbFiles # {}
    /\ snaps[2].sceneFiles # {}

\* ---- the scene pass (Spec)

\* C1, as stated: a record whose object count is not 20, 30 or 42 is
\* skipped (no scene image, no rows, the batch goes on); a record whose
\* object count is 20, 30 or 42 is processed and contributes rows (taken
\* here for the records with a JPEG or PNG image and a nonzero width and
\* height, the others being fatal by the format and dimension rules).
C1_SkippedByObjectCount ==
    (/\ lastScene.status # "none"
     /\ ImageDir[files[lastScene.idx].img].format \in {"JPEG", "PNG"}
     /\ files[lastScene.idx].width # 0
     /\ files[lastScene.idx].height # 0) =>
        LET d == files[lastScene.idx]
        IN IF d.n \in {20, 30, 42}
           THEN lastScene.status = "returned" /\ Len(LastScenePassRows) > 0
           ELSE /\ lastScene.status = "skipped"
                /\ Len(LastScenePassRows) = 0
                /\ lastScene.wrote = {}
                /\ pc # "failed"

\* C1, amended: the count is that of the objects whose name contains 'orb',
\* and the record must have an object element and a JPEG or PNG image, or
\* the run fails.  If that count is not 20, 30 or 42 the record is skipped;
\* if it is, the scene image is written, and one row a counted object,
\* unless the annotation's width or height is 0, when the run fails.
C1_SkippedByOrbCount ==
    lastScene.status # "none" =>
        LET d == files[lastScene.idx]
            readable == d.n > 0 /\ ImageDir[d.img].format \in {"JPEG", "PNG"}
            count == Len(OrbObjects(d))
        IN /\ ~readable =>
                /\ lastScene.status = "raised"
                /\ pc = "failed"
                /\ Len(LastScenePassRows) = 0
                /\ lastScene.wrote = {}
           /\ (readable /\ count \notin {20, 30, 42}) =>
                /\ lastScene.status = "skipped"
                /\ Len(LastScenePassRows) = 0
                /\ lastScene.wrote = {}
                /\ pc # "failed"
                /\ pc = "screen" => idx = lastScene.idx + 1
           /\ (readable /\ count \in {20, 30, 42}) =>
                /\ lastScene.wrote # {}
                /\ lastScene.wrote \subseteq sceneFiles
                /\ IF d.width = 0 \/ d.height = 0
                   THEN lastScene.status = "raised" /\ Len(LastScenePassRows) = 0
                   ELSE lastScene.status = "returned"
                        /\ Len(LastScenePassRows) = count

C1_Witness ==
    /\ Len(files) = 2
    /\ files[1].n = 19
    /\ files[2].n = 30
    /\ lastScene.idx = 2
    /\ lastScene.status = "returned"
    /\ lastScene.from = 0
    /\ Len(screenCsv) = 30

\* the row the claim gives a detection o of document d whose image is file
ClaimedRow(o, d, file) ==
    <<"UNASSIGNED",
      <<"gs:", SCREEN_BUCKET_PATH, SCREEN_OUTPUT_PATH, "corrected_images", file>>,
      ORB, pr(<<o.xmin, d.width>>), pr(<<o.ymin, d.height>>), "", "",
      pr(<<o.xmax, d.width>>), pr(<<o.ymax, d.height>>), "", "">>

\* C4, as stated: a record that passes the count check (with a nonzero
\* width and height, which normalising requires) gets one row for each of
\* its detections, in document order, each labelled 'orb'.
C4_RowPerDetection ==
    (/\ lastScene.wrote # {}
     /\ files[lastScene.idx].width # 0
     /\ files[lastScene.idx].height # 0) =>
        LET d == files[lastScene.idx]
        IN /\ Len(LastScenePassRows) = d.n
           /\ \A j \in 1..d.n : \E f \in lastScene.wrote :
                 LastScenePassRows[j] = ClaimedRow(Objects(d)[j], d, f)

\* C4, amended: a record that passes the count check, with a nonzero width
\* and height, gets one row for each of its detections whose name contains
\* 'orb' and none for the others, in document order, each labelled 'orb'.
C4_RowPerOrbDetection ==
    (/\ lastScene.wrote # {}
     /\ files[lastScene.idx].width # 0
     /\ files[lastScene.idx].height # 0) =>
        LET d == files[lastScene.idx]
        IN /\ Len(LastScenePassRows) = Len(OrbObjects(d))
           /\ \A j \in 1..Len(OrbObjects(d)) : \E f \in lastScene.wrote :
                 LastScenePassRows[j] = ClaimedRow(OrbObjects(d)[j], d, f)

C4_Witness ==
    /\ lastScene.status = "returned"
    /\ files[lastScene.idx].n = 40
    /\ Len(LastScenePassRows) = 20
    /\ LastScenePassRows[2][3] = ORB
    /\ LastScenePassRows[2][4] = 2000

\* C8, as stated: every coordinate in a row of screen_data.csv lies in
\* [0, 1].
C8_RowCoordinatesInUnitInterval ==
    \A i \in 1..Len(screenCsv) :
        \A k \in {4, 5, 8, 9} : 0 <= screenCsv[i][k] /\ screenCsv[i][k] <= UNIT

====
